---- MODULE Spec2Model ----
(***************************************************************************)
(* Verification model of chainlit's Microsoft 365 Agents / Teams adapter,  *)
(* backend/chainlit/msagents/app.py.                                       *)
(*                                                                         *)
(* State: the turns being served (one record per request, with the         *)
(* position of its coroutine and the calls it has made so far), the        *)
(* process-wide identity cache users_by_msagents_id, and the wall clock.   *)
(* One action per stretch of code between two awaits.  A field of the      *)
(* inbound request is drawn when the code first reads it: the request is   *)
(* immutable, so this is the same as drawing it on arrival.                *)
(* The collaborators outside the file (token validator, data layer, host   *)
(* callbacks, channel client, HTTP client) answer nondeterministically.    *)
(***************************************************************************)
EXTENDS Integers, Sequences, FiniteSets, TLC

VARIABLES
    turns,                  \* turn slot -> the request being served there
    users_by_msagents_id,   \* app.py:272, channel id -> cached host user
    today,                  \* the wall clock, in days since StartDate
    first_user,             \* history: channel id -> result of the first completed get_user
    token_calls,            \* the calls of _BotTokenProvider.get_access_token so far
    emitter_calls           \* the calls of the MsAgentsEmitter so far

vars == <<turns, users_by_msagents_id, today, first_user, token_calls, emitter_calls>>

\* The state of the components a turn does not touch.
apart == <<token_calls, emitter_calls>>

----------------------------------------------------------------------------
(* Bounds *)

MaxTurns == 2       \* turn slots (requests that can be in flight)
MaxTicks == 1       \* midnights the clock can cross
MaxTurnFiles == 1   \* attachments of an inbound message
MaxChannels == 1    \* channel identities that write to the bot
MaxAttachments == 3 \* attachments of the message whose download is examined on its own
MaxTokenCalls == 2  \* calls of get_access_token
MaxEmitterCalls == 2 \* calls of the emitter

Turns == 1..MaxTurns

----------------------------------------------------------------------------
(* Values *)

NoneStr == "None"                 \* Python None where a str is expected
Unread == "?"                     \* a request field the code has not read yet
None == [kind |-> "None"]         \* Python None where an object is expected

ChannelIds == {"u" \o ToString(i) : i \in 1..MaxChannels}
DisplayNames == {"alice", "bob"}
ConversationIds == {"c1", "c2"}
StepIds == {"s1"}
MessageIds == {"m1"}
Uuid4Values == {"sidA", "sidB"}   \* what uuid.uuid4() can return

Like == <<"l", "i", "k", "e">>
Dislike == <<"d", "i", "s", "l", "i", "k", "e">>
Texts == { [kind |-> "str", chars |-> Like],
           [kind |-> "str", chars |-> Dislike],
           [kind |-> "str", chars |-> <<" ", "h", "i">>],
           None }

\* activity.value: absent, a dict without step_id, a dict with one
Values == { None, [kind |-> "dict", step_id |-> NoneStr] }
            \cup { [kind |-> "dict", step_id |-> s] : s \in StepIds }

ThumbsUp == "U+1F44D"
ThumbsDown == "U+1F44E"
USER_PREFIX == "msagents_"

----------------------------------------------------------------------------
(* The clock: datetime.today().strftime("%Y-%m-%d") *)

StartDate == [y |-> 2024, m |-> 12, d |-> 31]

IsLeap(y) == (y % 4 = 0 /\ y % 100 # 0) \/ y % 400 = 0

DaysIn(y, m) ==
    IF m = 2 THEN (IF IsLeap(y) THEN 29 ELSE 28)
    ELSE IF m \in {4, 6, 9, 11} THEN 30 ELSE 31

NextDay(dt) ==
    IF dt.d < DaysIn(dt.y, dt.m) THEN [dt EXCEPT !.d = dt.d + 1]
    ELSE IF dt.m < 12 THEN [y |-> dt.y, m |-> dt.m + 1, d |-> 1]
    ELSE [y |-> dt.y + 1, m |-> 1, d |-> 1]

RECURSIVE DateAfter(_)
DateAfter(n) == IF n = 0 THEN StartDate ELSE NextDay(DateAfter(n - 1))

Digit(n) == <<"0", "1", "2", "3", "4", "5", "6", "7", "8", "9">>[n + 1]

Pad2(n) == Digit(n \div 10) \o Digit(n % 10)

Pad4(n) == Pad2(n \div 100) \o Pad2(n % 100)

Strftime(dt) == Pad4(dt.y) \o "-" \o Pad2(dt.m) \o "-" \o Pad2(dt.d)

Today == Strftime(DateAfter(today))

----------------------------------------------------------------------------
(* A turn: one inbound request and the coroutine serving it *)

IdleTurn ==
    [ pc |-> "idle",
      header |-> Unread,        \* the Authorization header
      client_id |-> Unread,     \* _auth_config.CLIENT_ID as read by process
      token |-> Unread,         \* what the validator said of the bearer token
      claims |-> NoneStr,       \* claims_identity
      response |-> NoneStr,     \* what process returned: "401", "ok", or "exception"
      exception |-> NoneStr,    \* the fault that left the turn, if one did
      type |-> Unread,          \* activity.type
      text |-> [kind |-> Unread],
      value |-> [kind |-> Unread],
      reply_to_id |-> Unread,
      from_name |-> Unread,
      from_id |-> Unread,
      thread_name |-> <<>>,
      user |-> None,
      cache_hit |-> FALSE,
      conversation |-> Unread,
      thread_day |-> Unread,    \* history: the date the thread id was derived from
      thread_id |-> <<>>,
      content |-> <<>>,
      files |-> <<>>,
      attachments |-> <<>>,     \* the attachments being downloaded
      fetch |-> <<>>,           \* their downloads' results
      session |-> None,
      file_elements |-> <<>>,
      log |-> <<>> ]            \* the calls the turn made on its collaborators, in order

Call(tr, e) == [tr EXCEPT !.log = Append(tr.log, e)]

Return(tr, resp) == [tr EXCEPT !.pc = "responded", !.response = resp]

Raise(tr, exc) == [Return(tr, "exception") EXCEPT !.exception = exc]

Goto(tr, pc) == [tr EXCEPT !.pc = pc]

----------------------------------------------------------------------------

Init ==
    /\ turns = [t \in Turns |-> IdleTurn]
    /\ users_by_msagents_id = [i \in ChannelIds |-> None]
    /\ today = 0
    /\ first_user = [i \in ChannelIds |-> None]
    /\ token_calls = <<>>
    /\ emitter_calls = <<>>

\* Midnight passes.
Tick ==
    /\ today < MaxTicks
    /\ today' = today + 1
    /\ UNCHANGED <<turns, users_by_msagents_id, first_user, apart>>

\* The host's HTTP layer hands a request to CloudAdapter.process.
Start(t) ==
    /\ turns[t].pc = "idle"
    /\ turns' = [turns EXCEPT ![t] = Goto(@, "process")]
    /\ UNCHANGED <<users_by_msagents_id, today, first_user, apart>>

\* The response has left; the slot can take the next request.
Release(t) ==
    /\ turns[t].pc = "responded"
    /\ turns' = [turns EXCEPT ![t] = IdleTurn]
    /\ UNCHANGED <<users_by_msagents_id, today, first_user, apart>>

----------------------------------------------------------------------------
(* CloudAdapter.process: the inbound authenticator *)

Headers == {"absent", "Basic", "Bearer"}   \* no header, another scheme, "Bearer <token>"
ClientIds == {NoneStr, "app-id"}           \* MICROSOFT_APP_ID unset or set

HasBearer(header) == header = "Bearer"

\* app.py:236-249 up to the first await.  The deployment's CLIENT_ID is read
\* where the code reads it, on the branch without a bearer token.
process(t) ==
    /\ turns[t].pc = "process"
    /\ \E header \in Headers, client_id \in ClientIds :
         LET tr == [turns[t] EXCEPT !.header = header]
             cfg == [tr EXCEPT !.client_id = client_id]
         IN turns' = [turns EXCEPT ![t] =
                IF HasBearer(header) THEN Goto(tr, "validate_token")
                ELSE IF client_id # NoneStr THEN Return(cfg, "401")
                ELSE Goto(cfg, "process_request")]
    /\ UNCHANGED <<users_by_msagents_id, today, first_user, apart>>

OnValueErrorDispatch(tr) == Goto(tr, "process_request")

\* What a failed JwtTokenValidator.validate_token makes process do (app.py:243-244).
OnValueError(tr) == Return(tr, "401")

\* app.py:242-244: the validator returns the claims or raises ValueError.
validate_token(t) ==
    /\ turns[t].pc = "validate_token"
    /\ \E valid \in BOOLEAN :
         turns' = [turns EXCEPT ![t] =
            IF valid
            THEN Goto([@ EXCEPT !.token = "valid", !.claims = "identity"], "process_request")
            ELSE OnValueError([@ EXCEPT !.token = "invalid"])]
    /\ UNCHANGED <<users_by_msagents_id, today, first_user, apart>>

\* app.py:248-249: the SDK's pipeline deserialises the body and calls the
\* agent's on_turn (app.py:462-468), which calls handle_message.
process_request(t) ==
    /\ turns[t].pc = "process_request"
    /\ turns' = [turns EXCEPT ![t] = Goto(Call(@, [op |-> "on_turn"]), "handle_message")]
    /\ UNCHANGED <<users_by_msagents_id, today, first_user, apart>>

----------------------------------------------------------------------------
(* handle_message *)

ActivityTypes == {"message", "conversationUpdate"}

IsLikeText(text) == text.kind = "str" /\ text.chars = Like

\* app.py:428-431
IsFeedbackText(text) == text.kind = "str" /\ text.chars \in {Like, Dislike}

AnyActivity(type) == TRUE

\* app.py:427
IsMessageActivity(type) == type = "message"

\* app.py:426-431: the dispatch on the activity's type and text
handle_message(t) ==
    /\ turns[t].pc = "handle_message"
    /\ \E type \in ActivityTypes :
         IF ~IsMessageActivity(type)
         THEN turns' = [turns EXCEPT ![t] = Return([@ EXCEPT !.type = type], "ok")]
         ELSE \E text \in Texts :
                LET tr == [turns[t] EXCEPT !.type = type, !.text = text]
                IN turns' = [turns EXCEPT ![t] =
                       Goto(tr, IF IsFeedbackText(text) THEN "feedback" ELSE "typing")]
    /\ UNCHANGED <<users_by_msagents_id, today, first_user, apart>>

\* app.py:432-434
FeedbackValue(text) == IF text.chars = Dislike THEN 0 ELSE 1

\* app.py:440
UpdatedText(text) == IF text.chars = Like THEN ThumbsUp ELSE ThumbsDown

\* app.py:432-439 up to the await of upsert_feedback: activity.value.get on an
\* absent value raises AttributeError; get_data_layer() may return nothing.
record_feedback(t) ==
    /\ turns[t].pc = "feedback"
    /\ \E value \in Values, data_layer \in BOOLEAN :
         LET tr == [turns[t] EXCEPT !.value = value]
             feedback == [op |-> "upsert_feedback", forId |-> value.step_id,
                          value |-> FeedbackValue(tr.text)]
         IN turns' = [turns EXCEPT ![t] =
                IF value = None THEN Raise(tr, "AttributeError")
                ELSE IF data_layer THEN Goto(Call(tr, feedback), "upsert_feedback")
                ELSE Goto(tr, "update_activity")]
    /\ UNCHANGED <<users_by_msagents_id, today, first_user, apart>>

\* What a raising upsert_feedback does to the turn: app.py:437-439 has no handler.
OnUpsertError(tr) == Raise(tr, "PersistenceError")

\* app.py:437-439: the data layer's upsert_feedback returns or raises.
upsert_feedback(t) ==
    /\ turns[t].pc = "upsert_feedback"
    /\ \E ok \in BOOLEAN :
         turns' = [turns EXCEPT ![t] =
            IF ok THEN Goto(@, "update_activity") ELSE OnUpsertError(@)]
    /\ UNCHANGED <<users_by_msagents_id, today, first_user, apart>>

\* app.py:442-447
UpdatedMessage(tr, reply_to_id) ==
    [op |-> "update_activity", type |-> "message", id |-> reply_to_id,
     text |-> UpdatedText(tr.text), attachments |-> <<>>]

\* app.py:440-448: the channel's update_activity returns or raises.
update_activity(t) ==
    /\ turns[t].pc = "update_activity"
    /\ \E reply_to_id \in MessageIds, ok \in BOOLEAN :
         LET tr == Call([turns[t] EXCEPT !.reply_to_id = reply_to_id],
                        UpdatedMessage(turns[t], reply_to_id))
         IN turns' = [turns EXCEPT ![t] =
                IF ok THEN Return(tr, "ok") ELSE Raise(tr, "ChannelError")]
    /\ UNCHANGED <<users_by_msagents_id, today, first_user, apart>>

\* app.py:451-457: the typing indicator; send_activity returns or raises.
TypingActivity ==
    [op |-> "send_activity", type |-> "typing", from_property |-> "activity.recipient",
     recipient |-> "activity.from_property", conversation |-> "activity.conversation"]

send_typing_skipped(t) ==
    /\ turns[t].pc = "typing"
    /\ turns' = [turns EXCEPT ![t] = Goto(@, "thread_name")]
    /\ UNCHANGED <<users_by_msagents_id, today, first_user, apart>>

send_typing(t) ==
    /\ turns[t].pc = "typing"
    /\ \E ok \in BOOLEAN :
         turns' = [turns EXCEPT ![t] =
            IF ok THEN Goto(Call(@, TypingActivity), "thread_name")
            ELSE Raise(Call(@, TypingActivity), "ChannelError")]
    /\ UNCHANGED <<users_by_msagents_id, today, first_user, apart>>

----------------------------------------------------------------------------
(* handle_message, the normal path, and get_user *)

\* app.py:458: the f-string, kept as its three parts
ThreadName(name, date) == <<name, " Teams DM ", date>>

\* app.py:458: the first read of the clock
thread_name(t) ==
    /\ turns[t].pc = "thread_name"
    /\ \E name \in DisplayNames :
         turns' = [turns EXCEPT ![t] =
            Goto([@ EXCEPT !.from_name = name, !.thread_name = ThreadName(name, Today)],
                 "get_user")]
    /\ UNCHANGED <<users_by_msagents_id, today, first_user, apart>>

\* app.py:281-285
NewUser(name, id) ==
    [kind |-> "User", identifier |-> USER_PREFIX \o name,
     metadata |-> [name |-> name, id |-> id]]

\* What data_layer.create_user returns when it persists the user.
PersistedUser(user) ==
    [kind |-> "PersistedUser", identifier |-> user.identifier,
     metadata |-> user.metadata, id |-> "db:" \o user.identifier]

NeverInCache(id) == FALSE

InCachePersisted(id) == users_by_msagents_id[id].kind = "PersistedUser"

\* app.py:278
InCache(id) == users_by_msagents_id[id] # None

\* The history variable: who the first completed get_user call returned.
Completed(id, user) ==
    first_user' = IF first_user[id] = None THEN [first_user EXCEPT ![id] = user]
                  ELSE first_user

\* app.py:362 and 277-291 up to the await of create_user: a hit returns the
\* cached user; a miss caches a new User before the data layer is asked.
get_user(t) ==
    /\ turns[t].pc = "get_user"
    /\ \E id \in ChannelIds, data_layer \in BOOLEAN :
         LET tr == Call([turns[t] EXCEPT !.from_id = id], [op |-> "get_user", id |-> id])
             user == NewUser(tr.from_name, id)
         IN IF InCache(id)
            THEN /\ turns' = [turns EXCEPT ![t] =
                        Goto([tr EXCEPT !.user = users_by_msagents_id[id],
                                        !.cache_hit = TRUE], "thread_id")]
                 /\ Completed(id, users_by_msagents_id[id])
                 /\ UNCHANGED users_by_msagents_id
            ELSE /\ users_by_msagents_id' = [users_by_msagents_id EXCEPT ![id] = user]
                 /\ IF data_layer
                    THEN /\ turns' = [turns EXCEPT ![t] =
                                Goto(Call([tr EXCEPT !.user = user],
                                          [op |-> "create_user", id |-> id]),
                                     "create_user")]
                         /\ UNCHANGED first_user
                    ELSE /\ turns' = [turns EXCEPT ![t] =
                                Goto([tr EXCEPT !.user = user], "thread_id")]
                         /\ Completed(id, user)
    /\ UNCHANGED <<today, apart>>

CreateUserOutcomes == {"persisted", "none", "raise"}

\* app.py:291-297: the cache entry after create_user answered
CacheAfterCreate(cached, user, outcome) ==
    IF outcome = "persisted" THEN PersistedUser(user) ELSE cached

\* app.py:291-297: create_user returns a persisted user, returns nothing, or
\* raises (caught and logged); get_user returns what the cache then holds.
create_user(t) ==
    /\ turns[t].pc = "create_user"
    /\ \E outcome \in CreateUserOutcomes :
         LET id == turns[t].from_id
             cached == CacheAfterCreate(users_by_msagents_id[id], turns[t].user, outcome)
             tr == IF outcome = "raise"
                   THEN Call(turns[t], [op |-> "logger.error", what |-> "create_user"])
                   ELSE turns[t]
         IN /\ users_by_msagents_id' = [users_by_msagents_id EXCEPT ![id] = cached]
            /\ turns' = [turns EXCEPT ![t] = Goto([tr EXCEPT !.user = cached], "thread_id")]
            /\ Completed(id, cached)
    /\ UNCHANGED <<today, apart>>

----------------------------------------------------------------------------
(* process_msagents_message *)

NAMESPACE_DNS == "6ba7b810-9dad-11d1-80b4-00c04fd430c8"

\* uuid.uuid5: a hash of (namespace, name), taken as free of collisions
Uuid5(namespace, name) == <<"uuid5", namespace, name>>

ThreadIdOfConversation(conversation, date) == Uuid5(NAMESPACE_DNS, conversation)

\* app.py:364-372
ThreadId(conversation, date) == Uuid5(NAMESPACE_DNS, conversation \o date)

\* app.py:364-372: the second read of the clock
thread_id(t) ==
    /\ turns[t].pc = "thread_id"
    /\ \E conversation \in ConversationIds :
         turns' = [turns EXCEPT ![t] =
            Goto([@ EXCEPT !.conversation = conversation, !.thread_day = Today,
                           !.thread_id = ThreadId(conversation, Today)], "session")]
    /\ UNCHANGED <<users_by_msagents_id, today, first_user, apart>>

IsSpace(c) == c \in {" ", "\t", "\n", "\r"}

RECURSIVE LStrip(_)
LStrip(s) == IF s # <<>> /\ IsSpace(Head(s)) THEN LStrip(Tail(s)) ELSE s

RECURSIVE RStrip(_)
RStrip(s) ==
    IF s # <<>> /\ IsSpace(s[Len(s)]) THEN RStrip(SubSeq(s, 1, Len(s) - 1)) ELSE s

\* app.py:354-355: str.strip() of activity.text
clean_content(text) == RStrip(LStrip(text.chars))

\* The shapes of an attachment's content: not a dict, a dict without
\* "downloadUrl", a dict with one.
Contents == {"str", "dict", "url"}

RECURSIVE Tuples(_, _)
Tuples(S, n) ==
    IF n = 0 THEN {<<>>}
    ELSE {Append(s, x) : s \in Tuples(S, n - 1), x \in S}

\* The attachment lists of length n; an attachment's name tells its place.
AttachmentLists(n) ==
    { [i \in 1..n |-> [name |-> "f" \o Digit(i), content |-> cs[i]]] : cs \in Tuples(Contents, n) }

AttachmentsUpTo(n) == UNION {AttachmentLists(k) : k \in 0..n}

\* app.py:377-384
HTTPSession(id, thread, user) ==
    [kind |-> "HTTPSession", id |-> id, thread_id |-> thread, user |-> user,
     client_type |-> "msagents", files |-> <<>>]

\* app.py:374-389: a text of None makes clean_content raise before the session exists.
create_session(t) ==
    /\ turns[t].pc = "session"
    /\ \E files \in AttachmentsUpTo(MaxTurnFiles), session_id \in Uuid4Values :
         LET tr == turns[t]
             session == HTTPSession(session_id, tr.thread_id, tr.user)
         IN turns' = [turns EXCEPT ![t] =
                IF tr.text = None THEN Raise(tr, "AttributeError")
                ELSE Goto(Call([tr EXCEPT !.content = clean_content(tr.text),
                                          !.files = files, !.session = session],
                               [op |-> "HTTPSession", id |-> session_id]),
                          "download")]
    /\ UNCHANGED <<users_by_msagents_id, today, first_user, apart>>

----------------------------------------------------------------------------
(* download_msagents_files *)

Pending == [kind |-> "pending"]
Bytes(data) == [kind |-> "bytes", data |-> data]

\* What a fetch can answer: 200 with a body (an image, or nothing), another
\* status, or no answer at all.
Bodies == {"PNG", ""}
Responses == { [status |-> 200, content |-> b] : b \in Bodies }
             \cup { [status |-> 404, content |-> ""], [status |-> 0, content |-> ""] }

\* app.py:315-317
HasDictContent(attachment) == attachment.content \in {"dict", "url"}

Filtered(attachments) == SelectSeq(attachments, HasDictContent)

\* app.py:312-322 up to the await of gather: nothing to do for no attachments,
\* else one download coroutine per attachment whose content is a dict.
download_msagents_files(t) ==
    /\ turns[t].pc = "download"
    /\ LET tr == turns[t]
           attachments == Filtered(tr.files)
       IN turns' = [turns EXCEPT ![t] =
              IF tr.files = <<>>
              THEN Goto(Call(tr, [op |-> "downloaded", elements |-> <<>>]), "on_chat_start")
              ELSE Goto([tr EXCEPT !.attachments = attachments,
                                   !.fetch = [i \in 1..Len(attachments) |-> Pending]],
                        "gather")]
    /\ UNCHANGED <<users_by_msagents_id, today, first_user, apart>>

\* app.py:303-306
FileBytes(response) == IF response.status = 200 THEN Bytes(response.content) ELSE None

\* app.py:300-306 and 319: one download coroutine finishes, in any order.  A
\* dict without "downloadUrl" gives httpx a URL of None, which raises; so does
\* a request that gets no answer.  gather passes the exception on.
download_msagents_file(t, i) ==
    /\ turns[t].pc = "gather"
    /\ i \in DOMAIN turns[t].fetch
    /\ turns[t].fetch[i] = Pending
    /\ LET tr == turns[t]
           attachment == tr.attachments[i]
           get == [op |-> "http_get", name |-> attachment.name, status |-> 0]
       IN IF attachment.content # "url"
          THEN turns' = [turns EXCEPT ![t] = Raise(tr, "TypeError")]
          ELSE \E response \in Responses :
                 turns' = [turns EXCEPT ![t] =
                    IF response.status = 0 THEN Raise(Call(tr, get), "HTTPError")
                    ELSE Call([tr EXCEPT !.fetch[i] = FileBytes(response)],
                              [get EXCEPT !.status = response.status])]
    /\ UNCHANGED <<users_by_msagents_id, today, first_user, apart>>

\* app.py:325: the truth value of a download's result
Truthy(file_bytes) == file_bytes.kind = "bytes" /\ file_bytes.data # ""

\* app.py:327: filetype.guess_mime, with the default
MimeType(data) == IF data = "PNG" THEN "image/png" ELSE "application/octet-stream"

\* HTTPSession.persist_file: stores the file under a fresh id
PersistFile(name, mime, idx) ==
    [id |-> "file" \o Digit(idx), name |-> name, path |-> "/files/file" \o Digit(idx),
     type |-> mime]

\* Element.infer_type_from_mime
InferType(mime) == IF mime = "image/png" THEN "image" ELSE "file"

Indices(n) == [i \in 1..n |-> i]

\* app.py:323-331: the files persisted, in the order of the attachments
FileRefs(attachments, file_bytes_list) ==
    LET kept == SelectSeq(Indices(Len(attachments)), LAMBDA i : Truthy(file_bytes_list[i]))
    IN [k \in 1..Len(kept) |->
           PersistFile(attachments[kept[k]].name, MimeType(file_bytes_list[kept[k]].data),
                       kept[k])]

\* app.py:337-349
Elements(files_dicts) ==
    [k \in 1..Len(files_dicts) |->
        [id |-> files_dicts[k].id, name |-> files_dicts[k].name,
         path |-> files_dicts[k].path, chainlitKey |-> files_dicts[k].id,
         display |-> "inline", type |-> InferType(files_dicts[k].type)]]

\* app.py:322-351: gather returns once every download has finished
gather(t) ==
    /\ turns[t].pc = "gather"
    /\ \A i \in DOMAIN turns[t].fetch : turns[t].fetch[i] # Pending
    /\ LET tr == turns[t]
           file_refs == FileRefs(tr.attachments, tr.fetch)
           elements == Elements(file_refs)
       IN turns' = [turns EXCEPT ![t] =
              Goto(Call([tr EXCEPT !.session.files = file_refs, !.file_elements = elements,
                                   !.attachments = <<>>, !.fetch = <<>>],
                        [op |-> "downloaded", elements |-> elements]),
                   "on_chat_start")]
    /\ UNCHANGED <<users_by_msagents_id, today, first_user, apart>>

----------------------------------------------------------------------------
(* process_msagents_message: the host's lifecycle *)

\* A host callback, when one is configured, returns or raises.
Callback(tr, name, next) ==
    { Goto(tr, next), Goto(Call(tr, [op |-> name]), next),
      Raise(Call(tr, [op |-> name]), "CallbackError") }

\* app.py:393-394
on_chat_start(t) ==
    /\ turns[t].pc = "on_chat_start"
    /\ \E tr \in Callback(turns[t], "on_chat_start", "msg_send") :
         turns' = [turns EXCEPT ![t] = tr]
    /\ UNCHANGED <<users_by_msagents_id, today, first_user, apart>>

\* app.py:396-401
Message(tr) ==
    [op |-> "msg.send", content |-> tr.content, elements |-> tr.file_elements,
     type |-> "user_message", author |-> tr.user.metadata.name]

\* app.py:396-403
msg_send(t) ==
    /\ turns[t].pc = "msg_send"
    /\ \E ok \in BOOLEAN :
         LET tr == Call(turns[t], Message(turns[t]))
         IN turns' = [turns EXCEPT ![t] =
                IF ok THEN Goto(tr, "on_message") ELSE Raise(tr, "MessageError")]
    /\ UNCHANGED <<users_by_msagents_id, today, first_user, apart>>

on_message_after_chat_end(t) ==
    /\ turns[t].pc = "on_message"
    /\ turns' = [turns EXCEPT ![t] =
          Goto(Call(Call(@, [op |-> "on_chat_end"]), [op |-> "on_message"]), "update_thread")]
    /\ UNCHANGED <<users_by_msagents_id, today, first_user, apart>>

\* app.py:405-406
on_message(t) ==
    /\ turns[t].pc = "on_message"
    /\ \E tr \in Callback(turns[t], "on_message", "on_chat_end") :
         turns' = [turns EXCEPT ![t] = tr]
    /\ UNCHANGED <<users_by_msagents_id, today, first_user, apart>>

\* app.py:408-409
on_chat_end(t) ==
    /\ turns[t].pc = "on_chat_end"
    /\ \E tr \in Callback(turns[t], "on_chat_end", "update_thread") :
         turns' = [turns EXCEPT ![t] = tr]
    /\ UNCHANGED <<users_by_msagents_id, today, first_user, apart>>

OnUpdateThreadErrorRaise(tr) == Raise(tr, "PersistenceError")

\* app.py:420-421: what a raising update_thread does to the turn
OnUpdateThreadError(tr) ==
    Goto(Call(tr, [op |-> "logger.error", what |-> "update_thread"]), "session_delete")

\* app.py:411-421: only with a data layer and a persisted user; a failure is
\* logged and swallowed.
update_thread(t) ==
    /\ turns[t].pc = "update_thread"
    /\ \E data_layer \in BOOLEAN, ok \in BOOLEAN :
         LET tr == turns[t]
             call == Call(tr, [op |-> "update_thread", thread_id |-> tr.thread_id,
                               name |-> tr.thread_name, user_id |-> tr.user.id])
         IN turns' = [turns EXCEPT ![t] =
                IF data_layer /\ tr.user.kind = "PersistedUser"
                THEN IF ok THEN Goto(call, "session_delete") ELSE OnUpdateThreadError(call)
                ELSE Goto(tr, "session_delete")]
    /\ UNCHANGED <<users_by_msagents_id, today, first_user, apart>>

\* app.py:423
session_delete(t) ==
    /\ turns[t].pc = "session_delete"
    /\ turns' = [turns EXCEPT ![t] =
          Return(Call(@, [op |-> "session.delete", id |-> @.session.id]), "ok")]
    /\ UNCHANGED <<users_by_msagents_id, today, first_user, apart>>

----------------------------------------------------------------------------
(* The adapter serving one request at a time *)

Step(t) ==
    \/ Start(t) \/ Release(t)
    \/ process(t) \/ validate_token(t) \/ process_request(t)
    \/ handle_message(t)
    \/ record_feedback(t) \/ upsert_feedback(t) \/ update_activity(t)
    \/ send_typing(t) \/ thread_name(t)
    \/ get_user(t) \/ create_user(t)
    \/ thread_id(t) \/ create_session(t)
    \/ download_msagents_files(t) \/ (\E i \in 1..MaxTurnFiles : download_msagents_file(t, i))
    \/ gather(t)
    \/ on_chat_start(t) \/ msg_send(t) \/ on_message(t) \/ on_chat_end(t)
    \/ update_thread(t) \/ session_delete(t)

Next == Tick \/ Step(1)

Spec == Init /\ [][Next]_vars

----------------------------------------------------------------------------
(* What the claims speak of *)

Ops(tr) == {tr.log[k].op : k \in DOMAIN tr.log}

Count(tr, op) == Cardinality({k \in DOMAIN tr.log : tr.log[k].op = op})

Entries(tr, op) == SelectSeq(tr.log, LAMBDA e : e.op = op)

Done(tr) == tr.pc = "responded"

TextIsLikeOrDislike(tr) == tr.text.kind = "str" /\ tr.text.chars \in {Like, Dislike}

----------------------------------------------------------------------------
(* C1 *)

\* The request's authentication failed: its bearer token did not validate, or
\* it has no bearer token and a client id is configured.
AuthFailed(tr) ==
    \/ tr.header = "Bearer" /\ tr.token = "invalid"
    \/ tr.header \in {"absent", "Basic"} /\ tr.client_id \notin {Unread, NoneStr}

----------------------------------------------------------------------------
(* C2 *)

HostSteps == <<"downloaded", "on_chat_start", "msg.send", "on_message", "on_chat_end">>

Rank(op) == CHOOSE k \in DOMAIN HostSteps : HostSteps[k] = op

HostLog(tr) == SelectSeq(tr.log, LAMBDA e : e.op \in {HostSteps[k] : k \in DOMAIN HostSteps})

\* C2: in every message turn the host steps happen in the order attachment
\* download, on_chat_start, message submission, on_message, on_chat_end, each
\* at most once; the callbacks come only after the download has completed and
\* on_message and on_chat_end only after the message was submitted.
C2_LifecycleOrder ==
    \A t \in Turns :
        LET h == HostLog(turns[t])
        IN /\ \A i, j \in DOMAIN h : i < j => Rank(h[i].op) < Rank(h[j].op)
           /\ h # <<>> => h[1].op = "downloaded"
           /\ (\E i \in DOMAIN h : h[i].op \in {"on_message", "on_chat_end"})
                 => \E i \in DOMAIN h : h[i].op = "msg.send"

C2_Witness ==
    \E t \in Turns :
        /\ Done(turns[t]) /\ turns[t].response = "ok"
        /\ Len(HostLog(turns[t])) = Len(HostSteps)

----------------------------------------------------------------------------
(* C3 *)

HasStepId(tr) == tr.value.kind = "dict" /\ tr.value.step_id \in StepIds

\* C3: a like (dislike) turn that carries a step id s records feedback 1 (0)
\* for s when a persistence layer is there, and issues exactly one
\* update_activity and no send_activity; the update is addressed to the
\* original message, its text is the thumbs-up (thumbs-down) emoji and its
\* attachment list is empty.
C3_FeedbackTurn ==
    \A t \in Turns :
        LET tr == turns[t]
            expected == [op |-> "update_activity", type |-> "message",
                         id |-> tr.reply_to_id,
                         text |-> IF tr.text.chars = Like THEN ThumbsUp ELSE ThumbsDown,
                         attachments |-> <<>>]
        IN (Done(tr) /\ TextIsLikeOrDislike(tr) /\ HasStepId(tr)) =>
              /\ Entries(tr, "update_activity") = <<expected>>
              /\ Count(tr, "send_activity") = 0
              /\ \A k \in DOMAIN tr.log :
                    tr.log[k].op = "upsert_feedback" =>
                       /\ tr.log[k].forId = tr.value.step_id
                       /\ tr.log[k].value = IF tr.text.chars = Like THEN 1 ELSE 0

----------------------------------------------------------------------------
(* C4 *)

\* C4: a like/dislike turn creates no session and calls no chat lifecycle
\* callback: no get_user, no HTTPSession, no typing indicator, no
\* on_chat_start, on_message or on_chat_end, and no message submission.
C4_FeedbackNoSession ==
    \A t \in Turns :
        TextIsLikeOrDislike(turns[t]) =>
            /\ Ops(turns[t]) \subseteq {"on_turn", "upsert_feedback", "update_activity"}
            /\ turns[t].user = None
            /\ turns[t].session = None

C4_Witness ==
    \E t \in Turns :
        /\ TextIsLikeOrDislike(turns[t]) /\ turns[t].text.chars = Dislike
        /\ Done(turns[t]) /\ turns[t].response = "ok"
        /\ Count(turns[t], "update_activity") = 1

----------------------------------------------------------------------------
(* C5 *)

\* C5: a message turn is a feedback event exactly when its text is like or
\* dislike and it carries a value with a step id; every other message turn,
\* also a like or dislike without a value, gets the typing indicator of a
\* normal message and does not fail on the missing value.
C5_FeedbackDispatch ==
    \A t \in Turns :
        LET tr == turns[t]
            feedback == TextIsLikeOrDislike(tr) /\ HasStepId(tr)
        IN (Done(tr) /\ tr.type = "message") =>
              /\ feedback => "send_activity" \notin Ops(tr)
              /\ ~feedback =>
                    /\ "send_activity" \in Ops(tr)
                    /\ "update_activity" \notin Ops(tr)
                    /\ TextIsLikeOrDislike(tr) => tr.exception # "AttributeError"

----------------------------------------------------------------------------
(* C7 *)

Returned(tr) == tr.user # None /\ tr.pc # "create_user"

\* C7: when get_user calls follow one another, every call for a channel id
\* returns the host user the first completed call for that id returned,
\* whatever the data layer does during the later calls.
C7_GetUserIdempotent ==
    \A t \in Turns :
        Returned(turns[t]) => turns[t].user = first_user[turns[t].from_id]

\* A later call, made under another display name, returned the persisted
\* user of the first call.
C7_Witness ==
    \E t \in Turns :
        /\ Returned(turns[t]) /\ turns[t].cache_hit
        /\ turns[t].user.kind = "PersistedUser"
        /\ turns[t].user.metadata.name # turns[t].from_name

----------------------------------------------------------------------------
(* C6: the identity of the sessions of concurrent turns *)

\* A turn of channel identity u1, served without authentication, whose
\* get_user has just returned: the point where process_msagents_message
\* derives the thread id.
TurnAfterGetUser(hit) ==
    LET id == CHOOSE i \in ChannelIds : TRUE
        name == CHOOSE n \in DisplayNames : TRUE
        text == CHOOSE x \in Texts : x # None /\ ~IsFeedbackText(x)
    IN [ Call(Call(Call(IdleTurn, [op |-> "on_turn"]), TypingActivity),
              [op |-> "get_user", id |-> id])
         EXCEPT !.pc = "thread_id", !.header = "absent", !.client_id = NoneStr,
                !.type = "message", !.text = text, !.from_name = name, !.from_id = id,
                !.thread_name = ThreadName(name, Strftime(StartDate)),
                !.user = NewUser(name, id), !.cache_hit = hit ]

\* Every slot holds such a turn: the first one missed the cache (no data
\* layer), the others hit it.
InitSessions ==
    /\ turns = [t \in Turns |-> TurnAfterGetUser(t # 1)]
    /\ users_by_msagents_id = [i \in ChannelIds |-> IF i = TurnAfterGetUser(FALSE).from_id
                                                      THEN TurnAfterGetUser(FALSE).user
                                                      ELSE None]
    /\ today = 0
    /\ first_user = users_by_msagents_id
    /\ token_calls = <<>>
    /\ emitter_calls = <<>>

NextSessions == Tick \/ \E t \in Turns : thread_id(t) \/ create_session(t)

SpecSessions == InitSessions /\ [][NextSessions]_vars

HasSession(tr) == tr.session # None

SameDay(t1, t2) ==
    /\ HasSession(turns[t1]) /\ HasSession(turns[t2])
    /\ turns[t1].conversation = turns[t2].conversation
    /\ turns[t1].thread_day = turns[t2].thread_day

OtherDay(t1, t2) ==
    /\ HasSession(turns[t1]) /\ HasSession(turns[t2])
    /\ turns[t1].conversation = turns[t2].conversation
    /\ turns[t1].thread_day # turns[t2].thread_day

----------------------------------------------------------------------------
(* C9: download_msagents_files on its own *)

\* The turn of TurnAfterGetUser once its session exists, about to download
\* the attachments `files`.
TurnAtDownload(files) ==
    LET tr == TurnAfterGetUser(FALSE)
        conversation == CHOOSE c \in ConversationIds : TRUE
        session_id == CHOOSE u \in Uuid4Values : TRUE
        thread == ThreadId(conversation, Strftime(StartDate))
    IN [ Call(tr, [op |-> "HTTPSession", id |-> session_id])
         EXCEPT !.pc = "download", !.conversation = conversation,
                !.thread_day = Strftime(StartDate), !.thread_id = thread,
                !.content = clean_content(tr.text), !.files = files,
                !.session = HTTPSession(session_id, thread, tr.user) ]

InitDownload ==
    /\ \E files \in AttachmentsUpTo(MaxAttachments) :
         turns = [t \in Turns |-> IF t = 1 THEN TurnAtDownload(files) ELSE IdleTurn]
    /\ users_by_msagents_id = [i \in ChannelIds |-> IF i = TurnAfterGetUser(FALSE).from_id
                                                      THEN TurnAfterGetUser(FALSE).user
                                                      ELSE None]
    /\ today = 0
    /\ first_user = users_by_msagents_id
    /\ token_calls = <<>>
    /\ emitter_calls = <<>>

NextDownload ==
    \/ download_msagents_files(1)
    \/ \E i \in 1..MaxAttachments : download_msagents_file(1, i)
    \/ gather(1)

SpecDownload == InitDownload /\ [][NextDownload]_vars

Names(seq) == [k \in DOMAIN seq |-> seq[k].name]

Downloaded(tr) == "downloaded" \in Ops(tr)

Answered(tr, name, statuses) ==
    \E k \in DOMAIN tr.log :
        /\ tr.log[k].op = "http_get"
        /\ tr.log[k].name = name
        /\ tr.log[k].status \in statuses

\* C9: when every attachment has a download URL, the elements returned are
\* those of the attachments whose URL answered 200, in the order of the
\* input; and an empty input returns nothing without any request.
C9_DownloadResult ==
    \A t \in Turns :
        LET tr == turns[t]
        IN (Downloaded(tr) /\ \A k \in DOMAIN tr.files : tr.files[k].content = "url") =>
              /\ Names(tr.file_elements)
                    = SelectSeq(Names(tr.files), LAMBDA n : Answered(tr, n, {200}))
              /\ tr.files = <<>> => tr.file_elements = <<>> /\ "http_get" \notin Ops(tr)

----------------------------------------------------------------------------
(* _BotTokenProvider.get_access_token *)

Absent == "<absent>"      \* a key a dict does not have

ResourceUrls == {"https://api.botframework.com"}
ScopeLists == {<<>>, <<"https://api.botframework.com/.default">>, <<"scope-a", "scope-b">>}

\* An MSAL result dict, by the keys the code looks at.
Result(token, error, description) ==
    [kind |-> "dict", access_token |-> token, error |-> error,
     error_description |-> description]

\* acquire_token_silent: a cached token, or None
SilentAnswers == {None, Result("cached-token", Absent, Absent)}

\* acquire_token_for_client: a token, or an error with or without its
\* description, or a dict with neither
ClientAnswers ==
    { Result("new-token", Absent, Absent),
      Result(Absent, "invalid_client", "AADSTS7000215: invalid client secret"),
      Result(Absent, "invalid_client", Absent),
      Result(Absent, Absent, Absent) }

\* app.py:152
Scope(resource_url, scopes) ==
    IF scopes # <<>> THEN scopes ELSE <<resource_url \o "/.default">>

AlwaysSilent(force_refresh) == TRUE

\* app.py:154
TriesSilent(force_refresh) == ~force_refresh

\* app.py:156: `not result`
Falsy(result) == result = None

ErrorTextUnknown(result) == "unknown"

\* app.py:161: result.get("error_description", result.get("error", "unknown"))
ErrorText(result) ==
    IF result.error_description # Absent THEN result.error_description
    ELSE IF result.error # Absent THEN result.error
    ELSE "unknown"

\* app.py:149-162: the call with the answers MSAL gives it; `msal` lists the
\* MSAL calls made, `silent` is what the silent lookup answered.
GetAccessToken(resource_url, scopes, force_refresh, silent, client) ==
    LET scope == Scope(resource_url, scopes)
        tried == TriesSilent(force_refresh)
        first == IF tried THEN silent ELSE None
        full == Falsy(first)
        result == IF full THEN client ELSE first
    IN [ resource_url |-> resource_url, scopes |-> scopes, force_refresh |-> force_refresh,
         scope |-> scope,
         msal |-> (IF tried THEN <<"acquire_token_silent">> ELSE <<>>)
                  \o (IF full THEN <<"acquire_token_for_client">> ELSE <<>>),
         silent |-> IF tried THEN silent ELSE [kind |-> "not asked"],
         client |-> IF full THEN client ELSE [kind |-> "not asked"],
         outcome |-> IF result.access_token # Absent
                     THEN [kind |-> "return", value |-> result.access_token]
                     ELSE [kind |-> "raise", exception |-> "ValueError",
                           message |-> "Failed to acquire token: " \o ErrorText(result)] ]

get_access_token ==
    /\ Len(token_calls) < MaxTokenCalls
    /\ \E resource_url \in ResourceUrls, scopes \in ScopeLists, force_refresh \in BOOLEAN,
          silent \in SilentAnswers, client \in ClientAnswers :
         token_calls' = Append(token_calls,
                               GetAccessToken(resource_url, scopes, force_refresh, silent, client))
    /\ UNCHANGED <<turns, users_by_msagents_id, today, first_user, emitter_calls>>

NextToken == get_access_token

SpecToken == Init /\ [][NextToken]_vars

Asked(call, what) == \E k \in DOMAIN call.msal : call.msal[k] = what

\* C8: a silent-cache hit never asks for the full client-credential
\* acquisition, a silent-cache miss always does, and a call with force_refresh
\* never asks the silent path and always asks for the full acquisition.
C8_SilentThenClient ==
    \A k \in DOMAIN token_calls :
        LET call == token_calls[k]
        IN /\ call.silent.kind = "dict" => ~Asked(call, "acquire_token_for_client")
           /\ call.silent = None => Asked(call, "acquire_token_for_client")
           /\ call.force_refresh =>
                 /\ ~Asked(call, "acquire_token_silent")
                 /\ Asked(call, "acquire_token_for_client")

C8_Witness ==
    \E j, k \in DOMAIN token_calls :
        /\ token_calls[j].force_refresh
        /\ token_calls[j].msal = <<"acquire_token_for_client">>
        /\ ~token_calls[k].force_refresh
        /\ token_calls[k].silent.kind = "dict"
        /\ token_calls[k].msal = <<"acquire_token_silent">>

----------------------------------------------------------------------------
(* MsAgentsEmitter.send_step and update_step *)

StepTypes == {"assistant_message", "user_message", "tool"}
Outputs == {Absent, "", "Hello"}
Runs == {None, [kind |-> "Step", id |-> "run-1"]}     \* context.current_run

StepDicts == [type : StepTypes, output : Outputs, id : {"step-1"}]

IsAnyMessage(type) == type \in {"user_message", "assistant_message"}

\* app.py:90
IsAssistantMessage(type) == type = "assistant_message"

\* app.py:93-97
IsMessage(type) == type \in {"user_message", "assistant_message"}

\* app.py:98: `not step_dict.get("output")`
IsEmptyOutput(output) == output \in {Absent, ""}

\* app.py:108-119
CardAction(title, text, scorable_id) ==
    [type |-> "messageBack", title |-> title, text |-> text,
     value |-> [feedback |-> text, step_id |-> scorable_id]]

\* app.py:106-124
FeedbackCard(step_dict, current_run) ==
    LET scorable_id == IF current_run # None THEN current_run.id ELSE step_dict.id
    IN [content_type |-> "application/vnd.microsoft.card.hero",
        content |-> [buttons |-> <<CardAction(ThumbsUp, "like", scorable_id),
                                   CardAction(ThumbsDown, "dislike", scorable_id)>>]]

\* app.py:89-127: the activities send_step hands to turn_context.send_activity
SendStep(step_dict, data_layer, current_run) ==
    IF ~IsAssistantMessage(step_dict.type) THEN <<>>
    ELSE IF IsEmptyOutput(step_dict.output) \/ ~IsMessage(step_dict.type) THEN <<>>
    ELSE << [type |-> "message", text |-> step_dict.output,
             attachments |-> IF data_layer THEN <<FeedbackCard(step_dict, current_run)>>
                             ELSE <<>>] >>

\* app.py:129-133
UpdateStep(step_dict, data_layer, current_run) ==
    IF ~IsAssistantMessage(step_dict.type) THEN <<>>
    ELSE SendStep(step_dict, data_layer, current_run)

Emitted(method, step_dict, data_layer, current_run, sent) ==
    [method |-> method, step |-> step_dict, data_layer |-> data_layer,
     current_run |-> current_run, sent |-> sent]

send_step ==
    /\ Len(emitter_calls) < MaxEmitterCalls
    /\ \E step_dict \in StepDicts, data_layer \in BOOLEAN, current_run \in Runs :
         emitter_calls' = Append(emitter_calls,
            Emitted("send_step", step_dict, data_layer, current_run,
                    SendStep(step_dict, data_layer, current_run)))
    /\ UNCHANGED <<turns, users_by_msagents_id, today, first_user, token_calls>>

update_step ==
    /\ Len(emitter_calls) < MaxEmitterCalls
    /\ \E step_dict \in StepDicts, data_layer \in BOOLEAN, current_run \in Runs :
         emitter_calls' = Append(emitter_calls,
            Emitted("update_step", step_dict, data_layer, current_run,
                    UpdateStep(step_dict, data_layer, current_run)))
    /\ UNCHANGED <<turns, users_by_msagents_id, today, first_user, token_calls>>

(* MsAgentsEmitter.send_element *)

Displays == {"inline", "side"}
ElementNames == {Absent, "report", "report.pdf"}
Mimes == {Absent, "application/pdf"}
ChainlitKeys == {Absent, "file1"}
Urls == {Absent, "https://host/report"}

ElementDicts ==
    [display : Displays, name : ElementNames, mime : Mimes, chainlitKey : ChainlitKeys,
     url : Urls]

\* dict.get(key): None for a key the dict does not have
Get(value) == IF value = Absent THEN NoneStr ELSE value

\* app.py:59: self.session.files.get(element_dict.get("chainlitKey") or "");
\* `stored` tells whether the session holds a file under the element's key.
PersistedFileOf(element, stored) ==
    IF element.chainlitKey # Absent /\ stored
    THEN [kind |-> "file", path |-> "/files/" \o element.chainlitKey]
    ELSE None

\* mimetypes.guess_extension
GuessExtension(mime) == IF mime = "application/pdf" THEN ".pdf" ELSE NoneStr

\* app.py:61: the value of `mime` when the name is built
MimeAtNaming(element) == NoneStr

\* app.py:63-68
ElementName(element) ==
    LET mime == MimeAtNaming(element)
        element_name == IF element.name = Absent THEN "Untitled" ELSE element.name
    IN IF mime # NoneStr /\ GuessExtension(mime) # NoneStr
       THEN element_name \o GuessExtension(mime)
       ELSE element_name

\* app.py:70-82
AttachmentOf(element, stored) ==
    IF PersistedFileOf(element, stored) # None
    THEN [kind |-> "Attachment", content_type |-> Get(element.mime),
          content_url |-> "data:" \o Get(element.mime) \o ";base64,"
                             \o "b64(" \o PersistedFileOf(element, stored).path \o ")",
          name |-> ElementName(element)]
    ELSE IF element.url # Absent
    THEN [kind |-> "Attachment", content_type |-> MimeAtNaming(element),
          content_url |-> element.url, name |-> ElementName(element)]
    ELSE None

\* app.py:55-87: the activities send_element hands to turn_context.send_activity
SendElement(element, stored) ==
    IF element.display # "inline" THEN <<>>
    ELSE IF AttachmentOf(element, stored) = None THEN <<>>
    ELSE << [type |-> "message", attachments |-> <<AttachmentOf(element, stored)>>] >>

send_element ==
    /\ Len(emitter_calls) < MaxEmitterCalls
    /\ \E element \in ElementDicts, stored \in BOOLEAN :
         emitter_calls' = Append(emitter_calls,
            [method |-> "send_element", element |-> element,
             persisted |-> PersistedFileOf(element, stored) # None,
             sent |-> SendElement(element, stored)])
    /\ UNCHANGED <<turns, users_by_msagents_id, today, first_user, token_calls>>

NextEmitter == send_step \/ update_step \/ send_element

SpecEmitter == Init /\ [][NextEmitter]_vars

\* C10: send_step makes no channel call for a step that is not an assistant
\* message or whose output is empty; for an assistant message with output and
\* a data layer it makes exactly one send_activity, whose activity carries
\* exactly one attachment, a card with exactly two buttons, like and dislike.
C10_SendStep ==
    \A k \in DOMAIN emitter_calls :
        LET call == emitter_calls[k]
            silent == call.step.type # "assistant_message" \/ call.step.output \in {Absent, ""}
        IN call.method = "send_step" =>
              /\ silent => call.sent = <<>>
              /\ (~silent /\ call.data_layer) =>
                    /\ Len(call.sent) = 1
                    /\ call.sent[1].text = call.step.output
                    /\ Len(call.sent[1].attachments) = 1
                    /\ Len(call.sent[1].attachments[1].content.buttons) = 2
                    /\ call.sent[1].attachments[1].content.buttons[1].text = "like"
                    /\ call.sent[1].attachments[1].content.buttons[2].text = "dislike"

C10_Witness ==
    \E j, k \in DOMAIN emitter_calls :
        /\ emitter_calls[j].method = "send_step"
        /\ emitter_calls[j].step.type = "user_message"
        /\ emitter_calls[j].step.output = "Hello"
        /\ emitter_calls[j].sent = <<>>
        /\ emitter_calls[k].method = "send_step"
        /\ emitter_calls[k].data_layer
        /\ Len(emitter_calls[k].sent) = 1
        /\ Len(emitter_calls[k].sent[1].attachments) = 1

----------------------------------------------------------------------------
(* C11 *)

LastOp(tr) == tr.log[Len(tr.log)].op

UpdateThreadFailed(tr) ==
    \E k \in DOMAIN tr.log : tr.log[k] = [op |-> "logger.error", what |-> "update_thread"]

\* C11: a failing update_thread is logged and swallowed: the turn goes on to
\* session.delete and completes without raising; and a turn that got past
\* on_chat_end tears its session down whether update_thread succeeded, failed
\* or was skipped.
C11_UpdateThreadSwallowed ==
    \A t \in Turns :
        LET tr == turns[t]
        IN /\ "update_thread" \in Ops(tr) =>
                 /\ tr.pc \in {"session_delete", "responded"}
                 /\ tr.exception = NoneStr
                 /\ UpdateThreadFailed(tr) => tr.log[Len(tr.log) - (IF Done(tr) THEN 1 ELSE 0)]
                                                = [op |-> "logger.error", what |-> "update_thread"]
           /\ (Done(tr) /\ tr.session # None /\ tr.exception = NoneStr) =>
                 /\ tr.response = "ok"
                 /\ Count(tr, "session.delete") = 1
                 /\ LastOp(tr) = "session.delete"
                 /\ tr.log[Len(tr.log)].id = tr.session.id

C11_Witness ==
    \E t \in Turns :
        /\ Done(turns[t]) /\ turns[t].response = "ok"
        /\ UpdateThreadFailed(turns[t])
        /\ LastOp(turns[t]) = "session.delete"

----------------------------------------------------------------------------
(* C12 *)

\* What processing a normal message consists of, past the typing indicator.
ProcessingOps ==
    {"get_user", "create_user", "HTTPSession", "http_get", "downloaded", "on_chat_start",
     "msg.send", "on_message", "on_chat_end", "update_thread", "session.delete"}

\* C12: in a normal message turn the typing activity, from the inbound
\* recipient to the inbound sender in the inbound conversation, is sent before
\* user mapping, session creation, attachment download and every host
\* callback; it is the first thing the turn does.
C12_TypingFirst ==
    \A t \in Turns :
        LET tr == turns[t]
        IN (tr.type = "message" /\ ~TextIsLikeOrDislike(tr)) =>
              /\ \A k \in DOMAIN tr.log :
                    tr.log[k].op \in ProcessingOps =>
                       /\ k > 2
                       /\ tr.log[2] = TypingActivity
              /\ (tr.user # None \/ tr.session # None \/ tr.thread_name # <<>>) =>
                    /\ Len(tr.log) >= 2
                    /\ tr.log[2] = TypingActivity
              /\ TypingActivity.from_property = "activity.recipient"
              /\ TypingActivity.recipient = "activity.from_property"
              /\ TypingActivity.conversation = "activity.conversation"

C12_Witness ==
    \E t \in Turns :
        /\ Done(turns[t]) /\ turns[t].response = "ok"
        /\ turns[t].type = "message" /\ ~TextIsLikeOrDislike(turns[t])
        /\ turns[t].log[2] = TypingActivity
        /\ \E k \in DOMAIN turns[t].log : turns[t].log[k].op = "on_message"

----------------------------------------------------------------------------
(* C13 *)

\* Neither MSAL call of the invocation answered with an access token.
NoToken(call) ==
    /\ call.silent.kind # "dict"
    /\ call.client.kind = "dict"
    /\ call.client.access_token = Absent

\* C13: when neither the silent lookup nor the client-credential acquisition
\* yields an access token, get_access_token raises an error whose message
\* carries the upstream error description, or the error code when there is no
\* description; a value is returned only when one of the two yielded a token.
C13_TokenFailure ==
    \A k \in DOMAIN token_calls :
        LET call == token_calls[k]
            upstream == call.client
        IN /\ NoToken(call) =>
                 /\ call.outcome.kind = "raise"
                 /\ upstream.error_description # Absent =>
                       call.outcome.message
                          = "Failed to acquire token: " \o upstream.error_description
                 /\ (upstream.error_description = Absent /\ upstream.error # Absent) =>
                       call.outcome.message = "Failed to acquire token: " \o upstream.error
           /\ call.outcome.kind = "return" =>
                 /\ ~NoToken(call)
                 /\ call.outcome.value \in {"cached-token", "new-token"}

C13_Witness ==
    \E j, k \in DOMAIN token_calls :
        /\ NoToken(token_calls[j])
        /\ token_calls[j].client.error_description # Absent
        /\ token_calls[j].outcome.kind = "raise"
        /\ NoToken(token_calls[k])
        /\ token_calls[k].client.error_description = Absent
        /\ token_calls[k].client.error # Absent
        /\ token_calls[k].outcome.kind = "raise"

----------------------------------------------------------------------------
(* C14 *)

\* C14: a turn whose activity is not a message does nothing: after on_turn
\* there is no channel send or update, no user mapping, no session, no
\* persistence call and no host callback, and the turn ends normally.
C14_NonMessageNoAction ==
    \A t \in Turns :
        LET tr == turns[t]
        IN tr.type \notin {Unread, "message"} =>
              /\ tr.log = <<[op |-> "on_turn"]>>
              /\ tr.user = None /\ tr.session = None
              /\ Done(tr) /\ tr.response = "ok"

C14_Witness ==
    \E t \in Turns :
        /\ turns[t].type = "conversationUpdate"
        /\ Done(turns[t]) /\ turns[t].response = "ok"

----------------------------------------------------------------------------
(* C15 *)

\* C15: a turn that created a session has called session.delete for it by the
\* time it ends, on a normal completion and on a fault raised by the download,
\* on_chat_start, the message submission, on_message or on_chat_end alike.
C15_SessionDestroyed ==
    \A t \in Turns :
        LET tr == turns[t]
        IN (Done(tr) /\ tr.session # None) =>
              \E k \in DOMAIN tr.log :
                  tr.log[k] = [op |-> "session.delete", id |-> tr.session.id]

----------------------------------------------------------------------------
(* Turns served concurrently: the identity cache under interleaving *)

\* A normal message turn of sender `name`, served without authentication,
\* that has sent its typing indicator and built its thread name (app.py:457-458)
\* and is about to call get_user.
TurnAtGetUser(name) ==
    [ Call(Call(IdleTurn, [op |-> "on_turn"]), TypingActivity)
      EXCEPT !.pc = "get_user", !.header = "absent", !.client_id = NoneStr,
             !.type = "message",
             !.text = CHOOSE x \in Texts : x # None /\ ~IsFeedbackText(x),
             !.from_name = name,
             !.thread_name = ThreadName(name, Strftime(StartDate)) ]

\* Every slot holds such a turn; no get_user call has been made yet.
InitUsers ==
    /\ \E names \in [Turns -> DisplayNames] :
         turns = [t \in Turns |-> TurnAtGetUser(names[t])]
    /\ users_by_msagents_id = [i \in ChannelIds |-> None]
    /\ today = 0
    /\ first_user = [i \in ChannelIds |-> None]
    /\ token_calls = <<>>
    /\ emitter_calls = <<>>

\* app.py:364-409 taken as one step, for it neither reads nor writes the
\* identity cache: the thread id is derived, the session created, the
\* attachments downloaded and the host's callbacks run; the turn arrives at
\* update_thread, or a fault ends it.
host_steps(t) ==
    /\ turns[t].pc = "thread_id"
    /\ \E conversation \in ConversationIds, session_id \in Uuid4Values, fault \in BOOLEAN :
         LET tr == turns[t]
             thread == ThreadId(conversation, Today)
             at == [tr EXCEPT !.conversation = conversation, !.thread_day = Today,
                              !.thread_id = thread, !.content = clean_content(tr.text),
                              !.session = HTTPSession(session_id, thread, tr.user)]
             made == Call(at, [op |-> "HTTPSession", id |-> session_id])
         IN turns' = [turns EXCEPT ![t] =
                IF fault THEN Raise(made, "CallbackError")
                ELSE Goto(Call(Call(made, [op |-> "downloaded", elements |-> <<>>]),
                               Message(at)),
                          "update_thread")]
    /\ UNCHANGED <<users_by_msagents_id, today, first_user, apart>>

NextUsers ==
    \E t \in Turns :
        \/ get_user(t) \/ create_user(t)
        \/ host_steps(t)
        \/ update_thread(t) \/ session_delete(t)

SpecUsers == InitUsers /\ [][NextUsers]_vars

----------------------------------------------------------------------------
(* C16 *)

\* C16: under any interleaving of the turns of one channel identity, all
\* get_user calls for that channel id return the same host user, the one the
\* id was first bound to in the cache.
C16_OneUserPerChannel ==
    \A t1, t2 \in Turns :
        (/\ Returned(turns[t1]) /\ Returned(turns[t2])
         /\ turns[t1].from_id = turns[t2].from_id)
            => turns[t1].user = turns[t2].user

----------------------------------------------------------------------------
(* C17 *)

\* C17: a like/dislike turn that asked the data layer to record the feedback
\* never ends with the data layer's error: whether upsert_feedback returned or
\* raised, the update_activity that puts the thumbs emoji in place of the
\* original message and empties its attachments has been issued.
C17_UpsertFailureSwallowed ==
    \A t \in Turns :
        LET tr == turns[t]
        IN (Done(tr) /\ "upsert_feedback" \in Ops(tr)) =>
              /\ tr.exception # "PersistenceError"
              /\ Count(tr, "update_activity") = 1
              /\ \A k \in DOMAIN tr.log :
                    tr.log[k].op = "update_activity" =>
                       /\ tr.log[k].text \in {ThumbsUp, ThumbsDown}
                       /\ tr.log[k].attachments = <<>>

----------------------------------------------------------------------------
(* C18 *)

\* The names that already end in a file extension.
WithExtension == {"report.pdf"}

\* The attachment name the element should get: its own name, with the
\* extension of its mime type when that is known and the name has none.
NamedAfter(element) ==
    LET name == IF element.name = Absent THEN "Untitled" ELSE element.name
    IN IF element.mime # Absent /\ name \notin WithExtension
       THEN name \o GuessExtension(element.mime)
       ELSE name

\* C18: send_element sends nothing for an element that is not inline or that
\* has neither a persisted file nor a url; otherwise it makes exactly one send
\* with exactly one attachment, named after the element (with the extension of
\* its mime type when a mime type is known and the name lacks one) and with
\* the element's declared mime type as content type.
C18_SendElement ==
    \A k \in DOMAIN emitter_calls :
        LET call == emitter_calls[k]
        IN call.method = "send_element" =>
              LET element == call.element
                  source == call.persisted \/ element.url # Absent
              IN /\ (element.display # "inline" \/ ~source) => call.sent = <<>>
                 /\ (element.display = "inline" /\ source) =>
                       /\ Len(call.sent) = 1
                       /\ Len(call.sent[1].attachments) = 1
                       /\ call.sent[1].attachments[1].name = NamedAfter(element)
                       /\ call.sent[1].attachments[1].content_type = Get(element.mime)

----------------------------------------------------------------------------
(* C19 *)

\* The turns that asked the data layer to create the user of channel id `id`.
Creators(id) ==
    {t \in Turns : \E k \in DOMAIN turns[t].log :
                       turns[t].log[k] = [op |-> "create_user", id |-> id]}

\* The create_user call of turn t has answered without a persisted user.
CreateFailed(t) ==
    /\ turns[t].pc # "create_user"
    /\ turns[t].user.kind = "User"

\* C19: whatever the interleaving of the turns, create_user is called at most
\* once for a channel id; and once that call has failed or returned nothing,
\* the cache keeps the non-persisted User, every turn of that channel id gets
\* it, and none of them calls update_thread.
C19_CreateUserOnce ==
    \A id \in ChannelIds :
        /\ Cardinality(Creators(id)) <= 1
        /\ \A t \in Creators(id) :
              /\ Count(turns[t], "create_user") = 1
              /\ CreateFailed(t) =>
                    /\ users_by_msagents_id[id].kind = "User"
                    /\ \A u \in Turns :
                          turns[u].from_id = id =>
                             /\ "update_thread" \notin Ops(turns[u])
                             /\ turns[u].user # None => turns[u].user.kind = "User"

C19_Witness ==
    \E t, u \in Turns :
        /\ t # u
        /\ t \in Creators(turns[t].from_id) /\ CreateFailed(t)
        /\ turns[u].from_id = turns[t].from_id
        /\ turns[u].cache_hit
        /\ Done(turns[u]) /\ turns[u].response = "ok"
        /\ Done(turns[t]) /\ turns[t].response = "ok"

----------------------------------------------------------------------------
(* C20 *)

\* C20: the date in the thread name a turn passes to update_thread is the date
\* its thread id was derived from, also when midnight passes between the two
\* reads of the clock.
C20_ThreadNameDate ==
    \A t \in Turns :
        LET tr == turns[t]
        IN \A k \in DOMAIN tr.log :
              tr.log[k].op = "update_thread" =>
                 /\ tr.log[k].name[3] = tr.thread_day
                 /\ tr.log[k].thread_id = ThreadId(tr.conversation, tr.log[k].name[3])

====
